---- MODULE Spec2Model ----
(***************************************************************************)
(* Beam lifecycle and delivery accounting of the Powerloom production      *)
(* dashboard backend (src/backend/main.py, the MongoDB variant).           *)
(*                                                                         *)
(* Every HTTP handler is one atomic action: the token dependency, the      *)
(* handler body with its early exits, and its try/except translation of    *)
(* errors.  Collections are functions from the ObjectIds in use to the     *)
(* stored documents.  ObjectIds are never reused, so each collection has a *)
(* counter of ids handed out.  Quantities that the code keeps as floats    *)
(* are integers here; dates are day numbers and a null date is NoDate.     *)
(* Document fields that no handler reads back (names, notes, timestamps,   *)
(* fabric_type, start_date, delivery_date) are left out.                   *)
(*                                                                         *)
(* A request names a document by an id that was handed out (the id of a   *)
(* deleted document is a well-formed id of nothing) or by a malformed id.  *)
(*                                                                         *)
(* Specifications:                                                         *)
(*   Spec             every handler that reads or writes workshops,        *)
(*                    machines, customers, beams or deliveries, the clock  *)
(*                    and reset-database                                   *)
(*   SpecAuth         every handler behind verify_token, with valid and    *)
(*                    invalid tokens, reset-password included              *)
(*   SpecRegistry     the reference data handlers with two documents per   *)
(*                    collection                                           *)
(*   SpecAccounting   beams and deliveries with zero and damaged           *)
(*                    quantities                                           *)
(*   SpecStartRace    start_new_beam served storage call by storage call   *)
(*                    in two worker slots                                  *)
(*   SpecDeliveryRace add_delivery and end_beam served storage call by     *)
(*                    storage call, with crashes of the worker             *)
(*   SpecCascadeRace  add_delivery and delete_beam served storage call by  *)
(*                    storage call                                         *)
(***************************************************************************)
EXTENDS Integers, FiniteSets, Sequences, TLC

\* ---------------------------------------------------------------- bounds
MaxWorkshops  == 1
MaxMachines   == 1
MaxCustomers  == 1
MaxBeams      == 2
MaxDeliveries == 2
MaxDay        == 2
MaxGated      == 1     \* documents per collection under SpecAuth
MaxRegistered == 2     \* documents per collection under SpecRegistry
MaxRequests   == 2     \* requests served at the same time

\* ------------------------------------------------------- request inputs
BadId    == 0          \* a string that ObjectId() rejects with InvalidId
NoDate   == 0          \* end_date: None

BeamNumbers     == {"B1", "B2"}
CustomerNames   == {"c1"}
MachineNumbers  == {1}
TotalMetersVals == {2}
MetersPerPiece  == {1}
PriceVals       == {1}
GoodVals        == {1, 2}
DamagedVals     == {0}

Usernames == {"admin", "clerk"}
Passwords == {"admin123", "other"}

\* bearer tokens: signature valid or not, expiry day, subject claim; two
\* tokens that login issued, the second one runs out after day 1
Tokens == { [sig |-> TRUE, exp |-> MaxDay, sub |-> "admin"],
            [sig |-> TRUE, exp |-> 1,      sub |-> "admin"] }

VARIABLES
    workshops,   \* workshops_col : set of workshop ids
    machines,    \* machines_col  : id -> [workshop_id, machine_number]
    customers,   \* customers_col : id -> [name, is_active]
    design_presets, \* design_presets_col : set of preset ids
    beams,       \* beams_col     : id -> beam document
    deliveries,  \* deliveries_col: id -> delivery document
    nextId,      \* ObjectIds handed out so far, per collection
    today,       \* the server's current date
    admin_users, \* admin_users_col: username -> password_hash
    last,        \* the last request and the error class of its response
    inflight     \* requests being served step by step: slot -> position and locals

vars == <<workshops, machines, customers, design_presets, beams, deliveries,
         nextId, today, admin_users, last, inflight>>

\* ------------------------------------------------------------ responses
OK           == [status |-> 200, class |-> "OK"]
NotFound     == [status |-> 404, class |-> "NotFound"]
Conflict     == [status |-> 400, class |-> "Conflict"]
Validation   == [status |-> 400, class |-> "Validation"]
Unauthorized == [status |-> 401, class |-> "Unauthorized"]
Internal     == [status |-> 500, class |-> "Internal"]

\* `except Exception as e: raise HTTPException(status_code=500, ...)` in a
\* handler that has no `except HTTPException: raise` clause before it: the
\* HTTPException the handler raised itself is caught and turned into a 500.
except_Exception(r) == Internal

\* `except HTTPException: raise` : the handler's own error goes through.
except_HTTPException(r) == r

\* the operation requested last and the error class of its response
Respond(op, r) == [op |-> op, class |-> r.class]

\* ------------------------------------------------------------- helpers
IsValidId(x) == x # BadId              \* ObjectId(x) does not raise InvalidId

verify_token(tok) ==
    /\ tok.sig
    /\ today <= tok.exp
    /\ tok.sub # "none"

\* bcrypt: hashpw/checkpw; the salt is left out, a hash matches its password only
hashpw(password)         == <<"bcrypt", password>>
checkpw(password, hash)  == hash = hashpw(password)

\* the ids a client can name: those handed out so far (the id of a deleted
\* document is a well-formed id that names nothing) and a malformed one
Issued(kind)     == 1..(nextId[kind] - 1)
RequestIds(kind) == Issued(kind) \cup {BadId}

Empty == [x \in {} |-> 0]             \* a collection with no document
Insert(col, id, doc) == col @@ (id :> doc)
Remove(col, ids)     == [x \in DOMAIN col \ ids |-> col[x]]

RECURSIVE SumOver(_, _)
SumOver(f, S) ==
    IF S = {} THEN 0
    ELSE LET x == CHOOSE y \in S : TRUE IN f[x] + SumOver(f, S \ {x})

DeliveriesOf(col, b) == {d \in DOMAIN col : col[d].beam_id = b}

\* sum(d.get("meters_used", 0) for d in deliveries_col.find({"beam_id": b}))
total_meters_used(col, b) ==
    SumOver([d \in DOMAIN col |-> col[d].meters_used], DeliveriesOf(col, b))

ActiveBeamsOn(m) ==
    {b \in DOMAIN beams : beams[b].machine_id = m /\ beams[b].status = "active"}

\* the worker slots of the server, and a slot that serves no request
Slots == 1..MaxRequests
Idle  == [op |-> "none", pc |-> "idle", crashed |-> FALSE]

\* ----------------------------------------------------------------- Init
Init ==
    /\ workshops  = {}
    /\ machines   = Empty
    /\ customers  = Empty
    /\ design_presets = {}
    /\ beams      = Empty
    /\ deliveries = Empty
    /\ nextId     = [workshops |-> 1, machines |-> 1, customers |-> 1,
                     design_presets |-> 1, beams |-> 1, deliveries |-> 1]
    /\ today      = 1
    /\ admin_users = ("admin" :> hashpw("admin123"))
    /\ last       = Respond("startup", OK)
    /\ inflight   = [p \in Slots |-> Idle]

\* The server clock moves to the next day.
Tick ==
    /\ today < MaxDay
    /\ today' = today + 1
    /\ last' = Respond("tick", OK)
    /\ UNCHANGED <<workshops, machines, customers, beams, deliveries, nextId, admin_users, design_presets, inflight>>

\* ------------------------------------------------------ beam lifecycle
\* start_new_beam without the look-up of an active beam on the machine
start_new_beam_response_no_active_check(tok, beam_number, customer_id, machine_id) ==
    IF ~verify_token(tok) THEN Unauthorized
    ELSE IF ~IsValidId(machine_id) THEN Internal
    ELSE IF machine_id \notin DOMAIN machines THEN except_HTTPException(NotFound)
    ELSE IF \E b \in DOMAIN beams : beams[b].beam_number = beam_number
         THEN except_HTTPException(Conflict)
    ELSE IF ~IsValidId(customer_id) THEN Internal
    ELSE OK

\* start_new_beam without the look-up of the beam_number
start_new_beam_response_no_duplicate_check(tok, beam_number, customer_id, machine_id) ==
    IF ~verify_token(tok) THEN Unauthorized
    ELSE IF ~IsValidId(machine_id) THEN Internal
    ELSE IF machine_id \notin DOMAIN machines THEN except_HTTPException(NotFound)
    ELSE IF ActiveBeamsOn(machine_id) # {} THEN except_HTTPException(Conflict)
    ELSE IF ~IsValidId(customer_id) THEN Internal
    ELSE OK

\* POST /api/beams/start : the checks of start_new_beam, in order.
start_new_beam_response(tok, beam_number, customer_id, machine_id) ==
    IF ~verify_token(tok) THEN Unauthorized
    ELSE IF ~IsValidId(machine_id) THEN Internal
    ELSE IF machine_id \notin DOMAIN machines THEN except_HTTPException(NotFound)
    ELSE IF ActiveBeamsOn(machine_id) # {} THEN except_HTTPException(Conflict)
    ELSE IF \E b \in DOMAIN beams : beams[b].beam_number = beam_number
         THEN except_HTTPException(Conflict)
    ELSE IF ~IsValidId(customer_id) THEN Internal
    ELSE OK

start_new_beam(tok, beam_number, customer_id, machine_id, total_beam_meters, meters_per_piece) ==
    LET r == start_new_beam_response(tok, beam_number, customer_id, machine_id) IN
    /\ IF r = OK
       THEN /\ beams' = Insert(beams, nextId.beams,
                   [beam_number       |-> beam_number,
                    machine_id        |-> machine_id,
                    workshop_id       |-> machines[machine_id].workshop_id,
                    customer_id       |-> customer_id,
                    total_beam_meters |-> total_beam_meters,
                    meters_per_piece  |-> meters_per_piece,
                    end_date          |-> NoDate,
                    status            |-> "active"])
            /\ nextId' = [nextId EXCEPT !.beams = @ + 1]
       ELSE UNCHANGED <<beams, nextId>>
    /\ last' = Respond("startBeam", r)
    /\ UNCHANGED <<workshops, machines, customers, deliveries, today, admin_users, design_presets, inflight>>

\* POST /api/beams/{beam_id}/end
end_beam_response(tok, beam_id) ==
    IF ~verify_token(tok) THEN Unauthorized
    ELSE IF ~IsValidId(beam_id) THEN Validation
    ELSE IF beam_id \notin DOMAIN beams THEN except_Exception(NotFound)
    ELSE IF beams[beam_id].status # "active" THEN except_Exception(Conflict)
    ELSE OK

end_beam(tok, beam_id) ==
    LET r == end_beam_response(tok, beam_id) IN
    /\ IF r = OK
       THEN beams' = [beams EXCEPT ![beam_id].status = "completed",
                                   ![beam_id].end_date = today]
       ELSE UNCHANGED beams
    /\ last' = Respond("endBeam", r)
    /\ UNCHANGED <<workshops, machines, customers, deliveries, nextId, today, admin_users, design_presets, inflight>>

\* DELETE /api/beams/{beam_id}
delete_beam_response(tok, beam_id) ==
    IF ~verify_token(tok) THEN Unauthorized
    ELSE IF ~IsValidId(beam_id) THEN Validation
    ELSE IF beam_id \notin DOMAIN beams THEN except_Exception(NotFound)
    ELSE OK

\* delete_beam without the delete_many: the deliveries stay
cascade_deliveries_none(col, beam_id) == col

\* deliveries_col.delete_many({"beam_id": ObjectId(beam_id)})
cascade_deliveries(col, beam_id) == Remove(col, DeliveriesOf(col, beam_id))

delete_beam(tok, beam_id) ==
    LET r == delete_beam_response(tok, beam_id) IN
    /\ IF r = OK
       THEN /\ beams' = Remove(beams, {beam_id})
            /\ deliveries' = cascade_deliveries(deliveries, beam_id)
       ELSE UNCHANGED <<beams, deliveries>>
    /\ last' = Respond("deleteBeam", r)
    /\ UNCHANGED <<workshops, machines, customers, nextId, today, admin_users, design_presets, inflight>>

\* Python's `/`: ZeroDivisionError on a zero divisor; the quotient is cut
\* towards zero, as int() cuts it
truediv(a, b) ==
    IF b = 0 THEN [raised |-> TRUE, value |-> 0]
    ELSE [raised |-> FALSE,
          value  |-> IF a >= 0 THEN a \div b ELSE -((-a) \div b)]

\* the percentage without the test on total_beam_meters
meter_usage_percentage_unguarded(used, total_beam_meters) ==
    truediv(used * 100, total_beam_meters)

\* (total_meters_used / total_beam_meters * 100) if total_beam_meters > 0 else 0
meter_usage_percentage(used, total_beam_meters) ==
    IF total_beam_meters > 0 THEN truediv(used * 100, total_beam_meters)
    ELSE [raised |-> FALSE, value |-> 0]

\* int(remaining_meters / meters_per_piece if meters_per_piece > 0 else 0)
estimated_pieces_remaining(remaining, meters_per_piece) ==
    IF meters_per_piece > 0 THEN truediv(remaining, meters_per_piece)
    ELSE [raised |-> FALSE, value |-> 0]

\* sum(d.get(field, 0) for d in deliveries) over the deliveries of a beam
SumField(col, b, field) ==
    SumOver([d \in DOMAIN col |-> col[d][field]], DeliveriesOf(col, b))

\* The "totals" object of get_beam_details, for a beam that exists.
get_beam_details_totals(beam_id) ==
    LET used      == SumField(deliveries, beam_id, "meters_used")
        remaining == beams[beam_id].total_beam_meters - used
        estimated == estimated_pieces_remaining(remaining, beams[beam_id].meters_per_piece)
        percent   == meter_usage_percentage(used, beams[beam_id].total_beam_meters)
    IN  [total_good        |-> SumField(deliveries, beam_id, "good_pieces"),
         total_damaged     |-> SumField(deliveries, beam_id, "damaged_pieces"),
         total_meters_used |-> used,
         total_amount      |-> SumField(deliveries, beam_id, "total_amount"),
         remaining_meters  |-> remaining,
         estimated_pieces_remaining |-> estimated.value,
         meter_usage_percentage     |-> percent.value,
         raised            |-> estimated.raised \/ percent.raised]

\* GET /api/beams/{beam_id} : no token; reads only.
get_beam_details_response(beam_id) ==
    IF ~IsValidId(beam_id) THEN Validation
    ELSE IF beam_id \notin DOMAIN beams THEN except_Exception(NotFound)
    ELSE IF get_beam_details_totals(beam_id).raised THEN except_Exception(Internal)
    ELSE OK

get_beam_details(beam_id) ==
    /\ last' = Respond("getBeamDetails", get_beam_details_response(beam_id))
    /\ UNCHANGED <<workshops, machines, customers, beams, deliveries, nextId, today, admin_users, design_presets, inflight>>

\* ------------------------------------------------------------ deliveries
\* add_delivery that refuses a beam which is not active
add_delivery_response_active_only(tok, beam_id) ==
    IF ~verify_token(tok) THEN Unauthorized
    ELSE IF ~IsValidId(beam_id) THEN Validation
    ELSE IF beam_id \notin DOMAIN beams THEN except_Exception(NotFound)
    ELSE IF beams[beam_id].status # "active" THEN except_Exception(Conflict)
    ELSE OK

\* POST /api/deliveries, /api/deliveries/add
add_delivery_response(tok, beam_id) ==
    IF ~verify_token(tok) THEN Unauthorized
    ELSE IF ~IsValidId(beam_id) THEN Validation
    ELSE IF beam_id \notin DOMAIN beams THEN except_Exception(NotFound)
    ELSE OK

\* completion only when the meters are exceeded, not when they are reached
auto_complete_strict(col, beam_id, total) ==
    IF total > col[beam_id].total_beam_meters
    THEN [col EXCEPT ![beam_id].status = "completed", ![beam_id].end_date = today]
    ELSE col

\* completion that re-evaluates the status both ways
auto_complete_reevaluate(col, beam_id, total) ==
    IF total >= col[beam_id].total_beam_meters
    THEN [col EXCEPT ![beam_id].status = "completed", ![beam_id].end_date = today]
    ELSE [col EXCEPT ![beam_id].status = "active", ![beam_id].end_date = NoDate]

\* the completion step left out: the beam stays as it was
auto_complete_skipped(col, beam_id, total) == col

\* The completion step after the insert: the update has no status filter.
auto_complete(col, beam_id, total) ==
    IF total >= col[beam_id].total_beam_meters
    THEN [col EXCEPT ![beam_id].status = "completed", ![beam_id].end_date = today]
    ELSE col

\* a delivery whose meters count the good pieces only
delivery_doc_good_meters(beam_id, price_per_piece, good_pieces, damaged_pieces) ==
    [beam_id         |-> beam_id,
     price_per_piece |-> price_per_piece,
     good_pieces     |-> good_pieces,
     damaged_pieces  |-> damaged_pieces,
     meters_used     |-> good_pieces * beams[beam_id].meters_per_piece,
     total_amount    |-> good_pieces * price_per_piece]

\* The document add_delivery inserts, with its two derived values.
delivery_doc(beam_id, price_per_piece, good_pieces, damaged_pieces) ==
    LET total_pieces == good_pieces + damaged_pieces
        meters_used  == total_pieces * beams[beam_id].meters_per_piece
        total_amount == good_pieces * price_per_piece
    IN  [beam_id         |-> beam_id,
         price_per_piece |-> price_per_piece,
         good_pieces     |-> good_pieces,
         damaged_pieces  |-> damaged_pieces,
         meters_used     |-> meters_used,
         total_amount    |-> total_amount]

add_delivery(tok, beam_id, price_per_piece, good_pieces, damaged_pieces) ==
    LET r == add_delivery_response(tok, beam_id) IN
    /\ IF r = OK
       THEN LET inserted == Insert(deliveries, nextId.deliveries,
                                delivery_doc(beam_id, price_per_piece,
                                             good_pieces, damaged_pieces))
            IN /\ deliveries' = inserted
               /\ nextId' = [nextId EXCEPT !.deliveries = @ + 1]
               /\ beams' = auto_complete(beams, beam_id, total_meters_used(inserted, beam_id))
       ELSE UNCHANGED <<deliveries, nextId, beams>>
    /\ last' = Respond("addDelivery", r)
    /\ UNCHANGED <<workshops, machines, customers, today, admin_users, design_presets, inflight>>

\* DELETE /api/deliveries/{delivery_id}
delete_delivery_response(tok, delivery_id) ==
    IF ~verify_token(tok) THEN Unauthorized
    ELSE IF ~IsValidId(delivery_id) THEN Validation
    ELSE IF delivery_id \notin DOMAIN deliveries THEN except_Exception(NotFound)
    ELSE OK

\* a delete_delivery that reopens the parent beam when meters are left again
delete_delivery_beams_reopen(col, delivery_id) ==
    LET b    == deliveries[delivery_id].beam_id
        rest == Remove(deliveries, {delivery_id})
    IN  IF b \in DOMAIN col /\ total_meters_used(rest, b) < col[b].total_beam_meters
        THEN [col EXCEPT ![b].status = "active", ![b].end_date = NoDate]
        ELSE col

\* What delete_delivery does to the beams collection: nothing.
delete_delivery_beams(col, delivery_id) == col

delete_delivery(tok, delivery_id) ==
    LET r == delete_delivery_response(tok, delivery_id) IN
    /\ IF r = OK
       THEN /\ deliveries' = Remove(deliveries, {delivery_id})
            /\ beams' = delete_delivery_beams(beams, delivery_id)
       ELSE UNCHANGED <<deliveries, beams>>
    /\ last' = Respond("deleteDelivery", r)
    /\ UNCHANGED <<workshops, machines, customers, nextId, today, admin_users, design_presets, inflight>>

\* -------------------------------------------------------- reference data
\* POST /api/workshops : no check at all.
create_workshop(tok) ==
    LET r == IF ~verify_token(tok) THEN Unauthorized ELSE OK IN
    /\ IF r = OK
       THEN /\ workshops' = workshops \cup {nextId.workshops}
            /\ nextId' = [nextId EXCEPT !.workshops = @ + 1]
       ELSE UNCHANGED <<workshops, nextId>>
    /\ last' = Respond("createWorkshop", r)
    /\ UNCHANGED <<machines, customers, beams, deliveries, today, admin_users, design_presets, inflight>>

\* DELETE /api/workshops/{workshop_id}
delete_workshop_response(tok, workshop_id) ==
    IF ~verify_token(tok) THEN Unauthorized
    ELSE IF ~IsValidId(workshop_id) THEN Validation
    ELSE IF \E m \in DOMAIN machines : machines[m].workshop_id = workshop_id
         THEN except_Exception(Conflict)
    ELSE IF workshop_id \notin workshops THEN except_Exception(NotFound)
    ELSE OK

delete_workshop(tok, workshop_id) ==
    LET r == delete_workshop_response(tok, workshop_id) IN
    /\ workshops' = IF r = OK THEN workshops \ {workshop_id} ELSE workshops
    /\ last' = Respond("deleteWorkshop", r)
    /\ UNCHANGED <<machines, customers, beams, deliveries, nextId, today, admin_users, design_presets, inflight>>

\* POST /api/machines : the workshop is not looked up.
create_machine_response(tok, workshop_id, machine_number) ==
    IF ~verify_token(tok) THEN Unauthorized
    ELSE IF ~IsValidId(workshop_id) THEN Validation
    ELSE IF \E m \in DOMAIN machines : /\ machines[m].workshop_id = workshop_id
                                       /\ machines[m].machine_number = machine_number
         THEN except_Exception(Conflict)
    ELSE OK

create_machine(tok, workshop_id, machine_number) ==
    LET r == create_machine_response(tok, workshop_id, machine_number) IN
    /\ IF r = OK
       THEN /\ machines' = Insert(machines, nextId.machines,
                   [workshop_id |-> workshop_id, machine_number |-> machine_number])
            /\ nextId' = [nextId EXCEPT !.machines = @ + 1]
       ELSE UNCHANGED <<machines, nextId>>
    /\ last' = Respond("createMachine", r)
    /\ UNCHANGED <<workshops, customers, beams, deliveries, today, admin_users, design_presets, inflight>>

\* delete_machine without the count of active beams
delete_machine_response_no_active_check(tok, machine_id) ==
    IF ~verify_token(tok) THEN Unauthorized
    ELSE IF ~IsValidId(machine_id) THEN Validation
    ELSE IF machine_id \notin DOMAIN machines THEN except_Exception(NotFound)
    ELSE OK

\* DELETE /api/machines/{machine_id}
delete_machine_response(tok, machine_id) ==
    IF ~verify_token(tok) THEN Unauthorized
    ELSE IF ~IsValidId(machine_id) THEN Validation
    ELSE IF Cardinality(ActiveBeamsOn(machine_id)) > 0 THEN except_Exception(Conflict)
    ELSE IF machine_id \notin DOMAIN machines THEN except_Exception(NotFound)
    ELSE OK

delete_machine(tok, machine_id) ==
    LET r == delete_machine_response(tok, machine_id) IN
    /\ machines' = IF r = OK THEN Remove(machines, {machine_id}) ELSE machines
    /\ last' = Respond("deleteMachine", r)
    /\ UNCHANGED <<workshops, customers, beams, deliveries, nextId, today, admin_users, design_presets, inflight>>

\* create_customer without the look-up of the name
create_customer_response_no_duplicate_check(tok, name) ==
    IF ~verify_token(tok) THEN Unauthorized ELSE OK

\* POST /api/customers : no try block, the duplicate error goes through.
create_customer_response(tok, name) ==
    IF ~verify_token(tok) THEN Unauthorized
    ELSE IF \E c \in DOMAIN customers : customers[c].name = name THEN Conflict
    ELSE OK

create_customer(tok, name) ==
    LET r == create_customer_response(tok, name) IN
    /\ IF r = OK
       THEN /\ customers' = Insert(customers, nextId.customers,
                                [name |-> name, is_active |-> TRUE])
            /\ nextId' = [nextId EXCEPT !.customers = @ + 1]
       ELSE UNCHANGED <<customers, nextId>>
    /\ last' = Respond("createCustomer", r)
    /\ UNCHANGED <<workshops, machines, beams, deliveries, today, admin_users, design_presets, inflight>>

\* DELETE /api/customers/{customer_id} : beams are not consulted.
delete_customer_response(tok, customer_id) ==
    IF ~verify_token(tok) THEN Unauthorized
    ELSE IF ~IsValidId(customer_id) THEN Validation
    ELSE IF customer_id \notin DOMAIN customers THEN except_Exception(NotFound)
    ELSE OK

delete_customer(tok, customer_id) ==
    LET r == delete_customer_response(tok, customer_id) IN
    /\ customers' = IF r = OK THEN Remove(customers, {customer_id}) ELSE customers
    /\ last' = Respond("deleteCustomer", r)
    /\ UNCHANGED <<workshops, machines, beams, deliveries, nextId, today, admin_users, design_presets, inflight>>

\* PUT /api/customers/{customer_id}/status : the status word is checked
\* before the id is parsed; is_active and the status word are stored together.
toggle_customer_status_response(tok, customer_id, new_status) ==
    IF ~verify_token(tok) THEN Unauthorized
    ELSE IF new_status \notin {"active", "inactive"} THEN except_Exception(Validation)
    ELSE IF ~IsValidId(customer_id) THEN Validation
    ELSE IF customer_id \notin DOMAIN customers THEN except_Exception(NotFound)
    ELSE OK

toggle_customer_status(tok, customer_id, new_status) ==
    LET r == toggle_customer_status_response(tok, customer_id, new_status) IN
    /\ customers' = IF r = OK
                    THEN [customers EXCEPT ![customer_id].is_active = (new_status = "active")]
                    ELSE customers
    /\ last' = Respond("customerStatus", r)
    /\ UNCHANGED <<workshops, machines, beams, deliveries, nextId, today, admin_users, design_presets, inflight>>

\* POST /api/design-presets : no check, no try block.
create_design_preset(tok) ==
    LET r == IF ~verify_token(tok) THEN Unauthorized ELSE OK IN
    /\ IF r = OK
       THEN /\ design_presets' = design_presets \cup {nextId.design_presets}
            /\ nextId' = [nextId EXCEPT !.design_presets = @ + 1]
       ELSE UNCHANGED <<design_presets, nextId>>
    /\ last' = Respond("createPreset", r)
    /\ UNCHANGED <<workshops, machines, customers, beams, deliveries, today, admin_users, inflight>>

\* DELETE /api/design-presets/{preset_id}
delete_design_preset_response(tok, preset_id) ==
    IF ~verify_token(tok) THEN Unauthorized
    ELSE IF ~IsValidId(preset_id) THEN Validation
    ELSE IF preset_id \notin design_presets THEN except_Exception(NotFound)
    ELSE OK

delete_design_preset(tok, preset_id) ==
    LET r == delete_design_preset_response(tok, preset_id) IN
    /\ design_presets' = IF r = OK THEN design_presets \ {preset_id} ELSE design_presets
    /\ last' = Respond("deletePreset", r)
    /\ UNCHANGED <<workshops, machines, customers, beams, deliveries, nextId, today, admin_users, inflight>>

\* ----------------------------------------------------------------- admin
\* reset_password without the token dependency
reset_password_no_token(tok, username, new_password) ==
    /\ admin_users' = IF username \in DOMAIN admin_users
                      THEN [admin_users EXCEPT ![username] = hashpw(new_password)]
                      ELSE admin_users
    /\ last' = Respond("resetPassword", OK)
    /\ UNCHANGED <<workshops, machines, customers, beams, deliveries, nextId, today, design_presets, inflight>>

\* POST /api/auth/reset-password : update_one without upsert, no try block.
reset_password(tok, username, new_password) ==
    LET r == IF ~verify_token(tok) THEN Unauthorized ELSE OK IN
    /\ admin_users' = IF r = OK /\ username \in DOMAIN admin_users
                      THEN [admin_users EXCEPT ![username] = hashpw(new_password)]
                      ELSE admin_users
    /\ last' = Respond("resetPassword", r)
    /\ UNCHANGED <<workshops, machines, customers, beams, deliveries, nextId, today, design_presets, inflight>>

\* reset_database without the comparison of the password
reset_database_response_any_password(tok, admin_password) ==
    IF ~verify_token(tok) THEN Unauthorized
    ELSE IF "admin" \notin DOMAIN admin_users THEN except_HTTPException(Unauthorized)
    ELSE OK

\* POST /api/admin/reset-database
reset_database_response(tok, admin_password) ==
    IF ~verify_token(tok) THEN Unauthorized
    ELSE IF \/ "admin" \notin DOMAIN admin_users
            \/ ~checkpw(admin_password, admin_users["admin"])
         THEN except_HTTPException(Unauthorized)
    ELSE OK

reset_database(tok, admin_password) ==
    LET r == reset_database_response(tok, admin_password) IN
    /\ IF r = OK
       THEN /\ deliveries' = Empty
            /\ beams'      = Empty
            /\ design_presets' = {}
            /\ machines'   = Empty
            /\ workshops'  = {}
            /\ customers'  = Empty
       ELSE UNCHANGED <<deliveries, beams, design_presets, machines, workshops, customers>>
    /\ last' = Respond("resetDatabase", r)
    /\ UNCHANGED <<nextId, today, admin_users, inflight>>

\* ------------------------------------------------------------------ Next
\* One request of each kind, with every input a client can send.  An insert
\* of reference data is taken while ids of the collection are left.
StartBeam ==
    \E tok \in Tokens, bn \in BeamNumbers, c \in RequestIds("customers"),
       m \in RequestIds("machines"), t \in TotalMetersVals, mpp \in MetersPerPiece :
        /\ start_new_beam_response(tok, bn, c, m) = OK => nextId.beams <= MaxBeams
        /\ start_new_beam(tok, bn, c, m, t, mpp)
EndBeam        == \E tok \in Tokens, b \in RequestIds("beams") : end_beam(tok, b)
DeleteBeam     == \E tok \in Tokens, b \in RequestIds("beams") : delete_beam(tok, b)
GetBeamDetails == \E b \in RequestIds("beams") : get_beam_details(b)
AddDelivery ==
    \E tok \in Tokens, b \in RequestIds("beams"), p \in PriceVals,
       g \in GoodVals, d \in DamagedVals :
        /\ add_delivery_response(tok, b) = OK => nextId.deliveries <= MaxDeliveries
        /\ add_delivery(tok, b, p, g, d)
DeleteDelivery == \E tok \in Tokens, d \in RequestIds("deliveries") : delete_delivery(tok, d)
CreateWorkshop ==
    \E tok \in Tokens :
        /\ verify_token(tok) => nextId.workshops <= MaxWorkshops
        /\ create_workshop(tok)
DeleteWorkshop == \E tok \in Tokens, w \in RequestIds("workshops") : delete_workshop(tok, w)
CreateMachine ==
    \E tok \in Tokens, w \in RequestIds("workshops"), n \in MachineNumbers :
        /\ create_machine_response(tok, w, n) = OK => nextId.machines <= MaxMachines
        /\ create_machine(tok, w, n)
DeleteMachine  == \E tok \in Tokens, m \in RequestIds("machines") : delete_machine(tok, m)
CreateCustomer ==
    \E tok \in Tokens, n \in CustomerNames :
        /\ create_customer_response(tok, n) = OK => nextId.customers <= MaxCustomers
        /\ create_customer(tok, n)
DeleteCustomer == \E tok \in Tokens, c \in RequestIds("customers") : delete_customer(tok, c)
ResetDatabase  == \E tok \in Tokens, p \in Passwords : reset_database(tok, p)

Next ==
    \/ Tick
    \/ StartBeam
    \/ EndBeam
    \/ DeleteBeam
    \/ GetBeamDetails
    \/ AddDelivery
    \/ DeleteDelivery
    \/ CreateWorkshop
    \/ DeleteWorkshop
    \/ CreateMachine
    \/ DeleteMachine
    \/ CreateCustomer
    \/ DeleteCustomer
    \/ ResetDatabase

Spec == Init /\ [][Next]_vars

\* ------------------------------------------------------------------ gate
\* Every handler behind verify_token, on one day, called with the token
\* login issued, a forged token, a token that has run out and a token
\* without a subject.  Each collection takes MaxGated inserts.
TokensAuth == { [sig |-> TRUE,  exp |-> MaxDay, sub |-> "admin"],
                [sig |-> FALSE, exp |-> MaxDay, sub |-> "admin"],
                [sig |-> TRUE,  exp |-> 0,      sub |-> "admin"],
                [sig |-> TRUE,  exp |-> MaxDay, sub |-> "none"] }
StatusWords == {"active", "inactive", "paused"}

StartBeamAuth ==
    \E tok \in TokensAuth, bn \in BeamNumbers, c \in RequestIds("customers"),
       m \in RequestIds("machines"), t \in TotalMetersVals, mpp \in MetersPerPiece :
        /\ start_new_beam_response(tok, bn, c, m) = OK => nextId.beams <= MaxGated
        /\ start_new_beam(tok, bn, c, m, t, mpp)
EndBeamAuth    == \E tok \in TokensAuth, b \in RequestIds("beams") : end_beam(tok, b)
DeleteBeamAuth == \E tok \in TokensAuth, b \in RequestIds("beams") : delete_beam(tok, b)
AddDeliveryAuth ==
    \E tok \in TokensAuth, b \in RequestIds("beams"), p \in PriceVals,
       g \in GoodVals, d \in DamagedVals :
        /\ add_delivery_response(tok, b) = OK => nextId.deliveries <= MaxGated
        /\ add_delivery(tok, b, p, g, d)
DeleteDeliveryAuth ==
    \E tok \in TokensAuth, d \in RequestIds("deliveries") : delete_delivery(tok, d)
CreateWorkshopAuth ==
    \E tok \in TokensAuth :
        /\ verify_token(tok) => nextId.workshops <= MaxGated
        /\ create_workshop(tok)
DeleteWorkshopAuth ==
    \E tok \in TokensAuth, w \in RequestIds("workshops") : delete_workshop(tok, w)
CreateMachineAuth ==
    \E tok \in TokensAuth, w \in RequestIds("workshops"), n \in MachineNumbers :
        /\ create_machine_response(tok, w, n) = OK => nextId.machines <= MaxGated
        /\ create_machine(tok, w, n)
DeleteMachineAuth ==
    \E tok \in TokensAuth, m \in RequestIds("machines") : delete_machine(tok, m)
CreateCustomerAuth ==
    \E tok \in TokensAuth, n \in CustomerNames :
        /\ create_customer_response(tok, n) = OK => nextId.customers <= MaxGated
        /\ create_customer(tok, n)
CustomerStatusAuth ==
    \E tok \in TokensAuth, c \in RequestIds("customers"), w \in StatusWords :
        toggle_customer_status(tok, c, w)
DeleteCustomerAuth ==
    \E tok \in TokensAuth, c \in RequestIds("customers") : delete_customer(tok, c)
CreatePresetAuth ==
    \E tok \in TokensAuth :
        /\ verify_token(tok) => nextId.design_presets <= MaxGated
        /\ create_design_preset(tok)
DeletePresetAuth ==
    \E tok \in TokensAuth, p \in RequestIds("design_presets") : delete_design_preset(tok, p)
ResetPasswordAuth ==
    \E tok \in TokensAuth, u \in Usernames, p \in Passwords : reset_password(tok, u, p)
ResetDatabaseAuth ==
    \E tok \in TokensAuth, p \in Passwords : reset_database(tok, p)

NextAuth ==
    \/ StartBeamAuth
    \/ EndBeamAuth
    \/ DeleteBeamAuth
    \/ AddDeliveryAuth
    \/ DeleteDeliveryAuth
    \/ CreateWorkshopAuth
    \/ DeleteWorkshopAuth
    \/ CreateMachineAuth
    \/ DeleteMachineAuth
    \/ CreateCustomerAuth
    \/ CustomerStatusAuth
    \/ DeleteCustomerAuth
    \/ CreatePresetAuth
    \/ DeletePresetAuth
    \/ ResetPasswordAuth
    \/ ResetDatabaseAuth

SpecAuth == Init /\ [][NextAuth]_vars

\* -------------------------------------------------------------- registry
\* The handlers of the reference data alone (no beam is started), with two
\* names and two machine numbers and MaxRegistered inserts per collection.
CustomerNamesWide  == {"c1", "c2"}
MachineNumbersWide == {1, 2}

CreateWorkshopReg ==
    \E tok \in Tokens :
        /\ verify_token(tok) => nextId.workshops <= MaxRegistered
        /\ create_workshop(tok)
CreateMachineReg ==
    \E tok \in Tokens, w \in RequestIds("workshops"), n \in MachineNumbersWide :
        /\ create_machine_response(tok, w, n) = OK => nextId.machines <= MaxRegistered
        /\ create_machine(tok, w, n)
CreateCustomerReg ==
    \E tok \in Tokens, n \in CustomerNamesWide :
        /\ create_customer_response(tok, n) = OK => nextId.customers <= MaxRegistered
        /\ create_customer(tok, n)
CustomerStatus ==
    \E tok \in Tokens, c \in RequestIds("customers"), w \in StatusWords :
        toggle_customer_status(tok, c, w)

NextRegistry ==
    \/ CreateWorkshopReg
    \/ DeleteWorkshop
    \/ CreateMachineReg
    \/ DeleteMachine
    \/ CreateCustomerReg
    \/ CustomerStatus
    \/ DeleteCustomer

SpecRegistry == Init /\ [][NextRegistry]_vars

\* ------------------------------------------------------------ accounting
\* The handlers that write or read beams and deliveries, on one day, with
\* the quantities a client may send: zero capacity, zero meters per piece,
\* damaged pieces, a price other than 1.
TotalMetersWide    == {0, 4}
MetersPerPieceWide == {0, 2}
PriceWide          == {2}
GoodWide           == {1}
DamagedWide        == {0, 1}

StartBeamWide ==
    \E tok \in Tokens, bn \in BeamNumbers, c \in Issued("customers"),
       m \in Issued("machines"), t \in TotalMetersWide, mpp \in MetersPerPieceWide :
        /\ start_new_beam_response(tok, bn, c, m) = OK => nextId.beams <= MaxBeams
        /\ start_new_beam(tok, bn, c, m, t, mpp)
AddDeliveryWide ==
    \E tok \in Tokens, b \in Issued("beams"), p \in PriceWide,
       g \in GoodWide, d \in DamagedWide :
        /\ add_delivery_response(tok, b) = OK => nextId.deliveries <= MaxDeliveries
        /\ add_delivery(tok, b, p, g, d)

NextAccounting ==
    \/ CreateWorkshop
    \/ CreateMachine
    \/ CreateCustomer
    \/ StartBeamWide
    \/ EndBeam
    \/ DeleteBeam
    \/ GetBeamDetails
    \/ AddDeliveryWide
    \/ DeleteDelivery
    \/ ResetDatabase

SpecAccounting == Init /\ [][NextAccounting]_vars

\* ----------------------------------------------------- requests in steps
\* A handler served in a slot: every call of the storage is one atomic step,
\* and the steps of two slots interleave.  The handler's local variables
\* are kept in the slot.
Frame == <<workshops, machines, customers, design_presets, nextId, today, admin_users>>

\* the handler returns or raises: the slot is done and the response is sent
Finish(p, r) ==
    /\ inflight' = [inflight EXCEPT ![p].pc = "done"]
    /\ last' = Respond(inflight[p].op, r)

Goto(p, pc) ==
    /\ inflight' = [inflight EXCEPT ![p].pc = pc]
    /\ UNCHANGED last

\* start_new_beam: Depends(verify_token) and the request body
start_new_beam_receive(p, tok, beam_number, customer_id, machine_id, total_beam_meters, meters_per_piece) ==
    /\ inflight[p].pc = "idle"
    /\ IF verify_token(tok)
       THEN /\ inflight' = [inflight EXCEPT ![p] =
                   [op |-> "startBeam", pc |-> "find_machine",
                    beam_number |-> beam_number, customer_id |-> customer_id,
                    machine_id |-> machine_id,
                    total_beam_meters |-> total_beam_meters,
                    meters_per_piece |-> meters_per_piece,
                    workshop_id |-> BadId]]
            /\ UNCHANGED last
       ELSE /\ inflight' = [inflight EXCEPT ![p] = [op |-> "startBeam", pc |-> "done"]]
            /\ last' = Respond("startBeam", Unauthorized)
    /\ UNCHANGED <<beams, deliveries>>
    /\ UNCHANGED Frame

\* machine = machines_col.find_one({"_id": ObjectId(beam.machine_id)})
start_new_beam_find_machine(p) ==
    LET req == inflight[p] IN
    /\ req.op = "startBeam" /\ req.pc = "find_machine"
    /\ IF ~IsValidId(req.machine_id) THEN Finish(p, Internal)
       ELSE IF req.machine_id \notin DOMAIN machines
            THEN Finish(p, except_HTTPException(NotFound))
       ELSE /\ inflight' = [inflight EXCEPT
                   ![p].pc = "find_active",
                   ![p].workshop_id = machines[req.machine_id].workshop_id]
            /\ UNCHANGED last
    /\ UNCHANGED <<beams, deliveries>>
    /\ UNCHANGED Frame

\* the look-up of an active beam that lets every request through
start_new_beam_find_active_skipped(p) ==
    LET req == inflight[p] IN
    /\ req.op = "startBeam" /\ req.pc = "find_active"
    /\ Goto(p, "find_duplicate")
    /\ UNCHANGED <<beams, deliveries>>
    /\ UNCHANGED Frame

\* existing = beams_col.find_one({"machine_id": ..., "status": "active"})
start_new_beam_find_active(p) ==
    LET req == inflight[p] IN
    /\ req.op = "startBeam" /\ req.pc = "find_active"
    /\ IF ActiveBeamsOn(req.machine_id) # {}
       THEN Finish(p, except_HTTPException(Conflict))
       ELSE Goto(p, "find_duplicate")
    /\ UNCHANGED <<beams, deliveries>>
    /\ UNCHANGED Frame

\* beams_col.find_one({"beam_number": beam.beam_number})
start_new_beam_find_duplicate(p) ==
    LET req == inflight[p] IN
    /\ req.op = "startBeam" /\ req.pc = "find_duplicate"
    /\ IF \E b \in DOMAIN beams : beams[b].beam_number = req.beam_number
       THEN Finish(p, except_HTTPException(Conflict))
       ELSE Goto(p, "insert")
    /\ UNCHANGED <<beams, deliveries>>
    /\ UNCHANGED Frame

\* beam_doc = {...}; beams_col.insert_one(beam_doc): nothing is looked up again
start_new_beam_insert(p) ==
    LET req == inflight[p] IN
    /\ req.op = "startBeam" /\ req.pc = "insert"
    /\ IF ~IsValidId(req.customer_id)
       THEN /\ Finish(p, Internal)
            /\ UNCHANGED <<beams, nextId>>
       ELSE /\ beams' = Insert(beams, nextId.beams,
                   [beam_number       |-> req.beam_number,
                    machine_id        |-> req.machine_id,
                    workshop_id       |-> req.workshop_id,
                    customer_id       |-> req.customer_id,
                    total_beam_meters |-> req.total_beam_meters,
                    meters_per_piece  |-> req.meters_per_piece,
                    end_date          |-> NoDate,
                    status            |-> "active"])
            /\ nextId' = [nextId EXCEPT !.beams = @ + 1]
            /\ Finish(p, OK)
    /\ UNCHANGED <<workshops, machines, customers, design_presets, deliveries,
                   today, admin_users>>

\* Two startBeam requests in steps, next to the creation of the machine and
\* the customer they name.
StartBeamReceive ==
    \E p \in Slots, tok \in Tokens, bn \in BeamNumbers, c \in RequestIds("customers"),
       m \in RequestIds("machines"), t \in TotalMetersVals, mpp \in MetersPerPiece :
        start_new_beam_receive(p, tok, bn, c, m, t, mpp)
StartBeamFindMachine   == \E p \in Slots : start_new_beam_find_machine(p)
StartBeamFindActive    == \E p \in Slots : start_new_beam_find_active(p)
StartBeamFindDuplicate == \E p \in Slots : start_new_beam_find_duplicate(p)
StartBeamInsert        == \E p \in Slots : start_new_beam_insert(p)

NextStartRace ==
    \/ CreateWorkshop
    \/ CreateMachine
    \/ CreateCustomer
    \/ StartBeamReceive
    \/ StartBeamFindMachine
    \/ StartBeamFindActive
    \/ StartBeamFindDuplicate
    \/ StartBeamInsert

SpecStartRace == Init /\ [][NextStartRace]_vars

\* add_delivery: Depends(verify_token) and the request body
add_delivery_receive(p, tok, beam_id, price_per_piece, good_pieces, damaged_pieces) ==
    /\ inflight[p].pc = "idle"
    /\ IF verify_token(tok)
       THEN /\ inflight' = [inflight EXCEPT ![p] =
                   [op |-> "addDelivery", pc |-> "find_beam", crashed |-> FALSE,
                    beam_id |-> beam_id, price_per_piece |-> price_per_piece,
                    good_pieces |-> good_pieces, damaged_pieces |-> damaged_pieces,
                    meters_per_piece |-> 0, total_beam_meters |-> 0,
                    total_meters_used |-> 0]]
            /\ UNCHANGED last
       ELSE /\ inflight' = [inflight EXCEPT ![p] =
                   [op |-> "addDelivery", pc |-> "done", crashed |-> FALSE]]
            /\ last' = Respond("addDelivery", Unauthorized)
    /\ UNCHANGED <<beams, deliveries>>
    /\ UNCHANGED Frame

\* beam = beams_col.find_one({"_id": ObjectId(delivery.beam_id)})
add_delivery_find_beam(p) ==
    LET req == inflight[p] IN
    /\ req.op = "addDelivery" /\ req.pc = "find_beam" /\ ~req.crashed
    /\ IF ~IsValidId(req.beam_id) THEN Finish(p, Validation)
       ELSE IF req.beam_id \notin DOMAIN beams THEN Finish(p, except_Exception(NotFound))
       ELSE /\ inflight' = [inflight EXCEPT
                   ![p].pc = "insert",
                   ![p].meters_per_piece = beams[req.beam_id].meters_per_piece,
                   ![p].total_beam_meters = beams[req.beam_id].total_beam_meters]
            /\ UNCHANGED last
    /\ UNCHANGED <<beams, deliveries>>
    /\ UNCHANGED Frame

\* the derived values from the beam read before; deliveries_col.insert_one
add_delivery_insert(p) ==
    LET req == inflight[p]
        total_pieces == req.good_pieces + req.damaged_pieces
    IN
    /\ req.op = "addDelivery" /\ req.pc = "insert" /\ ~req.crashed
    /\ deliveries' = Insert(deliveries, nextId.deliveries,
            [beam_id         |-> req.beam_id,
             price_per_piece |-> req.price_per_piece,
             good_pieces     |-> req.good_pieces,
             damaged_pieces  |-> req.damaged_pieces,
             meters_used     |-> total_pieces * req.meters_per_piece,
             total_amount    |-> req.good_pieces * req.price_per_piece])
    /\ nextId' = [nextId EXCEPT !.deliveries = @ + 1]
    /\ Goto(p, "sum")
    /\ UNCHANGED <<workshops, machines, customers, design_presets, beams,
                   today, admin_users>>

\* the sum that counts the request's own delivery only
add_delivery_sum_own(p) ==
    LET req == inflight[p] IN
    /\ req.op = "addDelivery" /\ req.pc = "sum" /\ ~req.crashed
    /\ inflight' = [inflight EXCEPT
            ![p].pc = "update",
            ![p].total_meters_used =
                (req.good_pieces + req.damaged_pieces) * req.meters_per_piece]
    /\ UNCHANGED <<last, beams, deliveries>>
    /\ UNCHANGED Frame

\* total_meters_used = sum(... deliveries_col.find({"beam_id": ...}))
add_delivery_sum(p) ==
    LET req == inflight[p] IN
    /\ req.op = "addDelivery" /\ req.pc = "sum" /\ ~req.crashed
    /\ inflight' = [inflight EXCEPT
            ![p].pc = "update",
            ![p].total_meters_used = total_meters_used(deliveries, req.beam_id)]
    /\ UNCHANGED <<last, beams, deliveries>>
    /\ UNCHANGED Frame

\* the completion step that completes only when the meters are exceeded
add_delivery_update_strict(p) ==
    LET req == inflight[p] IN
    /\ req.op = "addDelivery" /\ req.pc = "update" /\ ~req.crashed
    /\ beams' = IF /\ req.total_meters_used > req.total_beam_meters
                   /\ req.beam_id \in DOMAIN beams
                THEN [beams EXCEPT ![req.beam_id].status = "completed",
                                   ![req.beam_id].end_date = today]
                ELSE beams
    /\ Finish(p, OK)
    /\ UNCHANGED deliveries
    /\ UNCHANGED Frame

\* if total_meters_used >= beam.get("total_beam_meters", 0): beams_col.update_one
add_delivery_update(p) ==
    LET req == inflight[p] IN
    /\ req.op = "addDelivery" /\ req.pc = "update" /\ ~req.crashed
    /\ beams' = IF /\ req.total_meters_used >= req.total_beam_meters
                   /\ req.beam_id \in DOMAIN beams
                THEN [beams EXCEPT ![req.beam_id].status = "completed",
                                   ![req.beam_id].end_date = today]
                ELSE beams
    /\ Finish(p, OK)
    /\ UNCHANGED deliveries
    /\ UNCHANGED Frame

\* end_beam: Depends(verify_token) and the path parameter
end_beam_receive(p, tok, beam_id) ==
    /\ inflight[p].pc = "idle"
    /\ IF verify_token(tok)
       THEN /\ inflight' = [inflight EXCEPT ![p] =
                   [op |-> "endBeam", pc |-> "find_beam", crashed |-> FALSE,
                    beam_id |-> beam_id]]
            /\ UNCHANGED last
       ELSE /\ inflight' = [inflight EXCEPT ![p] =
                   [op |-> "endBeam", pc |-> "done", crashed |-> FALSE]]
            /\ last' = Respond("endBeam", Unauthorized)
    /\ UNCHANGED <<beams, deliveries>>
    /\ UNCHANGED Frame

\* beam = beams_col.find_one(...); if beam["status"] != "active"
end_beam_find_beam(p) ==
    LET req == inflight[p] IN
    /\ req.op = "endBeam" /\ req.pc = "find_beam" /\ ~req.crashed
    /\ IF ~IsValidId(req.beam_id) THEN Finish(p, Validation)
       ELSE IF req.beam_id \notin DOMAIN beams THEN Finish(p, except_Exception(NotFound))
       ELSE IF beams[req.beam_id].status # "active" THEN Finish(p, except_Exception(Conflict))
       ELSE Goto(p, "update")
    /\ UNCHANGED <<beams, deliveries>>
    /\ UNCHANGED Frame

\* the update of endBeam that sets the status and leaves end_date alone
end_beam_update_status_only(p) ==
    LET req == inflight[p] IN
    /\ req.op = "endBeam" /\ req.pc = "update" /\ ~req.crashed
    /\ beams' = IF req.beam_id \in DOMAIN beams
                THEN [beams EXCEPT ![req.beam_id].status = "completed"]
                ELSE beams
    /\ Finish(p, OK)
    /\ UNCHANGED deliveries
    /\ UNCHANGED Frame

\* beams_col.update_one({"_id": ...}, {"$set": {"status": "completed", ...}})
end_beam_update(p) ==
    LET req == inflight[p] IN
    /\ req.op = "endBeam" /\ req.pc = "update" /\ ~req.crashed
    /\ beams' = IF req.beam_id \in DOMAIN beams
                THEN [beams EXCEPT ![req.beam_id].status = "completed",
                                   ![req.beam_id].end_date = today]
                ELSE beams
    /\ Finish(p, OK)
    /\ UNCHANGED deliveries
    /\ UNCHANGED Frame

\* The worker process dies while it serves a request: the request stays
\* where it was, nothing is rolled back and no response is sent.
Crash(p) ==
    /\ inflight[p].pc \notin {"idle", "done"}
    /\ ~inflight[p].crashed
    /\ inflight' = [inflight EXCEPT ![p].crashed = TRUE]
    /\ UNCHANGED <<last, beams, deliveries>>
    /\ UNCHANGED Frame

\* addDelivery and endBeam requests in steps on beams that were started
\* before, with crashes of the worker.
AddDeliveryReceive ==
    \E p \in Slots, tok \in Tokens, b \in RequestIds("beams"), pr \in PriceVals,
       g \in GoodVals, d \in DamagedVals : add_delivery_receive(p, tok, b, pr, g, d)
AddDeliveryFindBeam == \E p \in Slots : add_delivery_find_beam(p)
AddDeliveryInsert   == \E p \in Slots : add_delivery_insert(p)
AddDeliverySum      == \E p \in Slots : add_delivery_sum(p)
AddDeliveryUpdate   == \E p \in Slots : add_delivery_update(p)
EndBeamReceive ==
    \E p \in Slots, tok \in Tokens, b \in RequestIds("beams") : end_beam_receive(p, tok, b)
EndBeamFindBeam == \E p \in Slots : end_beam_find_beam(p)
EndBeamUpdate   == \E p \in Slots : end_beam_update(p)
WorkerCrash     == \E p \in Slots : Crash(p)

NextDeliveryRace ==
    \/ CreateWorkshop
    \/ CreateMachine
    \/ CreateCustomer
    \/ StartBeam
    \/ AddDeliveryReceive
    \/ AddDeliveryFindBeam
    \/ AddDeliveryInsert
    \/ AddDeliverySum
    \/ AddDeliveryUpdate
    \/ EndBeamReceive
    \/ EndBeamFindBeam
    \/ EndBeamUpdate
    \/ WorkerCrash

SpecDeliveryRace == Init /\ [][NextDeliveryRace]_vars

\* delete_beam: Depends(verify_token) and the path parameter
delete_beam_receive(p, tok, beam_id) ==
    /\ inflight[p].pc = "idle"
    /\ IF verify_token(tok)
       THEN /\ inflight' = [inflight EXCEPT ![p] =
                   [op |-> "deleteBeam", pc |-> "delete_one", crashed |-> FALSE,
                    beam_id |-> beam_id]]
            /\ UNCHANGED last
       ELSE /\ inflight' = [inflight EXCEPT ![p] =
                   [op |-> "deleteBeam", pc |-> "done", crashed |-> FALSE]]
            /\ last' = Respond("deleteBeam", Unauthorized)
    /\ UNCHANGED <<beams, deliveries>>
    /\ UNCHANGED Frame

\* result = beams_col.delete_one(...); if result.deleted_count == 0: raise
delete_beam_delete_one(p) ==
    LET req == inflight[p] IN
    /\ req.op = "deleteBeam" /\ req.pc = "delete_one" /\ ~req.crashed
    /\ IF ~IsValidId(req.beam_id)
       THEN Finish(p, Validation) /\ UNCHANGED beams
       ELSE IF req.beam_id \notin DOMAIN beams
            THEN Finish(p, except_Exception(NotFound)) /\ UNCHANGED beams
       ELSE /\ beams' = Remove(beams, {req.beam_id})
            /\ Goto(p, "delete_many")
    /\ UNCHANGED deliveries
    /\ UNCHANGED Frame

\* deliveries_col.delete_many({"beam_id": ObjectId(beam_id)}): the
\* deliveries that are stored at this step
delete_beam_delete_many(p) ==
    LET req == inflight[p] IN
    /\ req.op = "deleteBeam" /\ req.pc = "delete_many" /\ ~req.crashed
    /\ deliveries' = cascade_deliveries(deliveries, req.beam_id)
    /\ Finish(p, OK)
    /\ UNCHANGED beams
    /\ UNCHANGED Frame

\* deleteBeam and addDelivery requests in steps on beams that were started
\* before; no worker crashes.
DeleteBeamReceive ==
    \E p \in Slots, tok \in Tokens, b \in RequestIds("beams") : delete_beam_receive(p, tok, b)
DeleteBeamDeleteOne  == \E p \in Slots : delete_beam_delete_one(p)
DeleteBeamDeleteMany == \E p \in Slots : delete_beam_delete_many(p)

NextCascadeRace ==
    \/ CreateWorkshop
    \/ CreateMachine
    \/ CreateCustomer
    \/ StartBeam
    \/ AddDeliveryReceive
    \/ AddDeliveryFindBeam
    \/ AddDeliveryInsert
    \/ AddDeliverySum
    \/ AddDeliveryUpdate
    \/ DeleteBeamReceive
    \/ DeleteBeamDeleteOne
    \/ DeleteBeamDeleteMany

SpecCascadeRace == Init /\ [][NextCascadeRace]_vars

\* =====================================================================
\* Properties
\* =====================================================================
RemainingMeters(b) == beams[b].total_beam_meters - total_meters_used(deliveries, b)

BeamNumbersUnique ==
    \A b1, b2 \in DOMAIN beams : beams[b1].beam_number = beams[b2].beam_number => b1 = b2

ReferencedBy(c) == {b \in DOMAIN beams : beams[b].customer_id = c}

Answered(op, class) == last = [op |-> op, class |-> class]

\* C1: with atomic handlers, every Machine is referenced by at most one
\* Beam with status=active, in every reachable state.
C1_OneActiveBeamPerMachine ==
    \A m \in DOMAIN machines : Cardinality(ActiveBeamsOn(m)) <= 1

\* a startBeam has just been refused while every machine is busy, one of
\* them with a completed beam behind it
C1_Witness ==
    /\ Answered("startBeam", "Conflict")
    /\ machines # Empty
    /\ \A m \in DOMAIN machines : Cardinality(ActiveBeamsOn(m)) = 1
    /\ \E b \in DOMAIN beams : beams[b].status = "completed"

\* C2 (as claimed): an authenticated startBeam with well-formed ids and the
\* beam_number of an existing Beam always answers Conflict and inserts nothing.
C2_DuplicateAlwaysConflict ==
    [][last'.op = "startBeam" =>
       \A b \in DOMAIN beams, tok \in Tokens, c \in RequestIds("customers") \ {BadId},
          m \in RequestIds("machines") \ {BadId}, t \in TotalMetersVals, mpp \in MetersPerPiece :
          (verify_token(tok) /\ start_new_beam(tok, beams[b].beam_number, c, m, t, mpp))
          => (last'.class = "Conflict" /\ beams' = beams)]_vars

\* C2 (amended): startBeam with the beam_number of an existing Beam never
\* succeeds and inserts nothing; it answers Conflict whenever the request is
\* authenticated and machine_id names an existing Machine, and NotFound when
\* machine_id is well-formed but names no Machine; beam_number stays unique.
C2_DuplicateRejected ==
    [][/\ BeamNumbersUnique'
       /\ last'.op = "startBeam" =>
          \A b \in DOMAIN beams, tok \in Tokens, m \in RequestIds("machines") :
             LET rejected ==
                    /\ beams' = beams
                    /\ last'.class # "OK"
                    /\ (verify_token(tok) /\ m \in DOMAIN machines)
                          => last'.class = "Conflict"
                    /\ (verify_token(tok) /\ IsValidId(m) /\ m \notin DOMAIN machines)
                          => last'.class = "NotFound"
             IN  \* a step of startBeam(tok, beam_number of b, _, m, _, _) is a rejection
                 \/ rejected
                 \/ \A c \in RequestIds("customers"), t \in TotalMetersVals,
                       mpp \in MetersPerPiece :
                       ~ start_new_beam(tok, beams[b].beam_number, c, m, t, mpp)]_vars

\* a startBeam naming an idle machine has just been refused for its beam_number
C2_Witness ==
    /\ Answered("startBeam", "Conflict")
    /\ beams # Empty
    /\ machines # Empty
    /\ \A m \in DOMAIN machines : ActiveBeamsOn(m) = {}

\* C3: an addDelivery that inserts a Delivery for an active Beam leaves the
\* Beam completed with end_date = today when the sum of meters_used over the
\* Beam's Deliveries (the new one included) is >= total_beam_meters, and
\* active with end_date null when the sum is smaller.
C3_AutoCompletion ==
    [][(last'.op = "addDelivery" /\ deliveries' # deliveries) =>
       \A tok \in Tokens, b \in DOMAIN beams, p \in PriceVals, g \in GoodVals, d \in DamagedVals :
          (beams[b].status = "active" /\ add_delivery(tok, b, p, g, d))
          => LET used == SumOver([x \in DOMAIN deliveries' |-> deliveries'[x].meters_used],
                                 {x \in DOMAIN deliveries' : deliveries'[x].beam_id = b})
             IN  IF used >= beams[b].total_beam_meters
                 THEN beams'[b].status = "completed" /\ beams'[b].end_date = today'
                 ELSE beams'[b].status = "active" /\ beams'[b].end_date = NoDate]_vars

\* the second delivery of a beam has just used up its meters on day 2
C3_Witness ==
    /\ Answered("addDelivery", "OK")
    /\ today = 2
    /\ \E b \in DOMAIN beams :
          /\ beams[b].status = "completed"
          /\ beams[b].end_date = today
          /\ Cardinality(DeliveriesOf(deliveries, b)) = 2
          /\ RemainingMeters(b) = 0

\* C4 (as claimed): addDelivery on a Beam that is already completed leaves its
\* status and its end_date unchanged.
C4_CompletedBeamUntouched ==
    [][last'.op = "addDelivery" =>
       \A tok \in Tokens, b \in DOMAIN beams, p \in PriceVals, g \in GoodVals, d \in DamagedVals :
          (beams[b].status = "completed" /\ add_delivery(tok, b, p, g, d))
          => /\ beams'[b].status = beams[b].status
             /\ beams'[b].end_date = beams[b].end_date]_vars

\* C5: a Beam whose status is completed is never active again for as long
\* as it exists.
C5_CompletedStaysCompleted ==
    [][\A b \in DOMAIN beams :
          (beams[b].status = "completed" /\ b \in DOMAIN beams')
          => beams'[b].status = "completed"]_vars

\* a completed beam has meters left again after its delivery was deleted
C5_Witness ==
    /\ Answered("deleteDelivery", "OK")
    /\ \E b \in DOMAIN beams :
          /\ beams[b].status = "completed"
          /\ RemainingMeters(b) > 0

\* C6 (as claimed): endBeam on a completed Beam answers Conflict and leaves
\* the Beam as it was.
C6_EndCompletedIsConflict ==
    [][last'.op = "endBeam" =>
       \A tok \in Tokens, b \in DOMAIN beams :
          (beams[b].status = "completed" /\ verify_token(tok) /\ end_beam(tok, b))
          => (last'.class = "Conflict" /\ beams' = beams)]_vars

\* C7 (as claimed): a successful deleteBeam(b) leaves no Delivery of b and
\* leaves machines, workshops and customers alone, and getBeamDetails(b) on
\* the deleted Beam answers NotFound.
C7_DeleteBeamCascades ==
    [][/\ last'.op = "deleteBeam" =>
          \A tok \in Tokens, b \in DOMAIN beams :
             (verify_token(tok) /\ delete_beam(tok, b))
             => /\ b \notin DOMAIN beams'
                /\ DeliveriesOf(deliveries', b) = {}
                /\ UNCHANGED <<machines, workshops, customers>>
       /\ last'.op = "getBeamDetails" =>
          \A b \in Issued("beams") :
             (b \notin DOMAIN beams /\ get_beam_details(b))
             => last'.class = "NotFound"]_vars

\* C8: a deleteDelivery that removes a Delivery changes nothing else: the
\* parent Beam keeps its status and its end_date.
C8_DeleteDeliveryOnly ==
    [][last'.op = "deleteDelivery" =>
       \A tok \in Tokens, d \in DOMAIN deliveries :
          (verify_token(tok) /\ delete_delivery(tok, d))
          => /\ deliveries' = Remove(deliveries, {d})
             /\ \A b \in DOMAIN beams :
                   /\ b \in DOMAIN beams'
                   /\ beams'[b].status = beams[b].status
                   /\ beams'[b].end_date = beams[b].end_date]_vars

\* the only delivery of a beam that it had completed was deleted on a later day
C8_Witness ==
    /\ Answered("deleteDelivery", "OK")
    /\ nextId.beams = 2
    /\ nextId.deliveries = 2
    /\ deliveries = Empty
    /\ \E b \in DOMAIN beams :
          beams[b].status = "completed" /\ beams[b].end_date < today

\* C9 (as claimed): deleteMachine(m) answers Conflict and deletes nothing
\* while a Beam on m is active, and removes m otherwise.
C9_DeleteMachineGuard ==
    [][last'.op = "deleteMachine" =>
       \A tok \in Tokens, m \in DOMAIN machines :
          (verify_token(tok) /\ delete_machine(tok, m))
          => IF ActiveBeamsOn(m) # {}
             THEN last'.class = "Conflict" /\ machines' = machines
             ELSE last'.class = "OK" /\ m \notin DOMAIN machines']_vars

\* C10 (as claimed): deleting a Customer that a Beam references fails and
\* the Customer record remains.
C10_DeleteCustomerBlocked ==
    [][last'.op = "deleteCustomer" =>
       \A tok \in Tokens, c \in DOMAIN customers :
          (ReferencedBy(c) # {} /\ verify_token(tok) /\ delete_customer(tok, c))
          => (last'.class # "OK" /\ customers' = customers)]_vars

\* C11 (as claimed): deleteWorkshop(w) answers Conflict and removes nothing
\* while a Machine has workshop_id = w, and removes w when it owns no Machine.
C11_DeleteWorkshopGuard ==
    [][last'.op = "deleteWorkshop" =>
       \A tok \in Tokens, w \in workshops :
          (verify_token(tok) /\ delete_workshop(tok, w))
          => IF \E m \in DOMAIN machines : machines[m].workshop_id = w
             THEN last'.class = "Conflict" /\ workshops' = workshops
             ELSE last'.class = "OK" /\ w \notin workshops']_vars

\* C12: a Delivery that addDelivery inserts stores meters_used =
\* (good_pieces + damaged_pieces) * meters_per_piece of its Beam as it is at
\* the insert, and total_amount = good_pieces * price_per_piece; no later
\* step changes either value of a Delivery that still exists.
C12_DeliveryAmounts ==
    [][/\ \A d \in DOMAIN deliveries \cap DOMAIN deliveries' :
             /\ deliveries'[d].meters_used = deliveries[d].meters_used
             /\ deliveries'[d].total_amount = deliveries[d].total_amount
       /\ \A d \in DOMAIN deliveries' \ DOMAIN deliveries :
             LET doc == deliveries'[d] IN
             /\ last'.op = "addDelivery"
             /\ doc.beam_id \in DOMAIN beams
             /\ doc.meters_used = (doc.good_pieces + doc.damaged_pieces)
                                     * beams[doc.beam_id].meters_per_piece
             /\ doc.total_amount = doc.good_pieces * doc.price_per_piece]_vars

\* a delivery with a damaged piece is stored: its meters count the damaged
\* piece, its amount does not; another request has been served since
C12_Witness ==
    /\ last.op # "addDelivery"
    /\ \E d \in DOMAIN deliveries :
          /\ deliveries[d].good_pieces = 1
          /\ deliveries[d].damaged_pieces = 1
          /\ deliveries[d].meters_used = 4
          /\ deliveries[d].total_amount = 2

Collections ==
    <<workshops, machines, customers, design_presets, beams, deliveries, admin_users>>

\* a bearer token that is not valid: forged, run out, or without a subject
BadTokens == {tok \in TokensAuth : ~(tok.sig /\ today <= tok.exp /\ tok.sub # "none")}

Denied == last'.class = "Unauthorized" /\ UNCHANGED Collections

C15_ResetDatabase ==
    [][last'.op = "resetDatabase" =>
       \A tok \in TokensAuth \ BadTokens, p \in Passwords :
          reset_database(tok, p)
          => IF admin_users["admin"] = hashpw(p)
             THEN /\ last'.class = "OK"
                  /\ customers' = Empty /\ workshops' = {} /\ machines' = Empty
                  /\ design_presets' = {} /\ beams' = Empty /\ deliveries' = Empty
                  /\ admin_users' = admin_users
             ELSE Denied]_vars

\* the database was wiped with the password that reset-password had set,
\* after every collection had held a document
C15_Witness ==
    /\ Answered("resetDatabase", "OK")
    /\ admin_users["admin"] = hashpw("other")
    /\ \A k \in DOMAIN nextId : nextId[k] = 2
    /\ workshops = {} /\ machines = Empty /\ customers = Empty
    /\ design_presets = {} /\ beams = Empty /\ deliveries = Empty

\* C16 (as claimed): endBeam, deleteBeam, getBeamDetails, addDelivery and
\* deleteDelivery, called with a well-formed id that names no document (and
\* a valid token where one is required), answer NotFound.
C16_MissingIsNotFound ==
    [][/\ last'.op = "endBeam" =>
          \A tok \in Tokens, b \in Issued("beams") \ DOMAIN beams :
             (verify_token(tok) /\ end_beam(tok, b)) => last'.class = "NotFound"
       /\ last'.op = "deleteBeam" =>
          \A tok \in Tokens, b \in Issued("beams") \ DOMAIN beams :
             (verify_token(tok) /\ delete_beam(tok, b)) => last'.class = "NotFound"
       /\ last'.op = "getBeamDetails" =>
          \A b \in Issued("beams") \ DOMAIN beams :
             get_beam_details(b) => last'.class = "NotFound"
       /\ last'.op = "addDelivery" =>
          \A tok \in Tokens, b \in Issued("beams") \ DOMAIN beams,
             p \in PriceVals, g \in GoodVals, d \in DamagedVals :
             (verify_token(tok) /\ add_delivery(tok, b, p, g, d)) => last'.class = "NotFound"
       /\ last'.op = "deleteDelivery" =>
          \A tok \in Tokens, d \in Issued("deliveries") \ DOMAIN deliveries :
             (verify_token(tok) /\ delete_delivery(tok, d)) => last'.class = "NotFound"]_vars

\* C17 (as claimed): in every state reached through createWorkshop,
\* deleteWorkshop, createMachine and deleteMachine, the workshop_id of every
\* Machine is the id of a Workshop that exists.
C17_MachineHasWorkshop ==
    \A m \in DOMAIN machines : machines[m].workshop_id \in workshops

UniqueKeys ==
    /\ \A c1, c2 \in DOMAIN customers :
          customers[c1].name = customers[c2].name => c1 = c2
    /\ \A m1, m2 \in DOMAIN machines :
          (/\ machines[m1].workshop_id = machines[m2].workshop_id
           /\ machines[m1].machine_number = machines[m2].machine_number) => m1 = m2

\* C18: with requests served one at a time, no two Customers share a name
\* and no two Machines of one workshop_id share a machine_number, after any
\* create or delete; a create that repeats the name of a Customer, or the
\* workshop_id and machine_number of a Machine, is refused and inserts nothing.
C18_NoDuplicateKeys ==
    [][/\ UniqueKeys'
       /\ last'.op = "createCustomer" =>
          \A tok \in Tokens, c \in DOMAIN customers :
             create_customer(tok, customers[c].name)
             => (last'.class # "OK" /\ customers' = customers)
       /\ last'.op = "createMachine" =>
          \A tok \in Tokens, m \in DOMAIN machines :
             create_machine(tok, machines[m].workshop_id, machines[m].machine_number)
             => (last'.class # "OK" /\ machines' = machines)]_vars

\* a createMachine has just been refused while two machines of the same
\* number stand in two workshops, and two customers are registered
C18_Witness ==
    /\ last.op = "createMachine" /\ last.class \notin {"OK", "Unauthorized", "Validation"}
    /\ Cardinality(DOMAIN customers) = 2
    /\ Cardinality(DOMAIN machines) = 2
    /\ \A m1, m2 \in DOMAIN machines :
          /\ machines[m1].machine_number = machines[m2].machine_number
          /\ m1 # m2 => machines[m1].workshop_id # machines[m2].workshop_id

\* C19: startBeam is check-then-act.  With every storage call a step of its
\* own, the look-up of an active beam writes nothing and refuses exactly when
\* the machine has an active beam at that moment, and the insert that
\* follows adds an active beam without looking again; so two requests for
\* one machine that both make the look-up before either insert leave two
\* active beams on it (the state of C19_Witness).
C19_CheckThenAct ==
    [][\A p \in Slots :
        /\ (inflight[p].pc = "find_active" /\ inflight'[p].pc # "find_active")
           => /\ beams' = beams
              /\ IF ActiveBeamsOn(inflight[p].machine_id) # {}
                 THEN inflight'[p].pc = "done" /\ last'.class = "Conflict"
                 ELSE inflight'[p].pc = "find_duplicate"
        /\ (/\ inflight[p].pc = "insert" /\ inflight'[p].pc = "done"
            /\ IsValidId(inflight[p].customer_id))
           => \E b \in DOMAIN beams' \ DOMAIN beams :
                 /\ beams'[b].status = "active"
                 /\ beams'[b].machine_id = inflight[p].machine_id
                 /\ beams' = Insert(beams, b, beams'[b])]_vars

\* both requests have answered OK and one machine carries two active beams
\* with different beam_numbers
C19_Witness ==
    /\ Answered("startBeam", "OK")
    /\ \A p \in Slots : inflight[p].pc = "done"
    /\ \E m \in DOMAIN machines : \E b1, b2 \in ActiveBeamsOn(m) :
          beams[b1].beam_number # beams[b2].beam_number

\* a beam whose status is active although its deliveries use up its meters
ActiveExhausted(b) ==
    /\ beams[b].status = "active"
    /\ total_meters_used(deliveries, b) >= beams[b].total_beam_meters

\* an addDelivery for b has inserted its delivery and not yet updated b
BetweenSteps(p, b) ==
    /\ inflight[p].op = "addDelivery"
    /\ inflight[p].pc \in {"sum", "update"}
    /\ inflight[p].beam_id = b

\* C20 (as claimed, for the concurrent endBeam): an endBeam that updates the
\* Beam between the two steps of an addDelivery which has used up its
\* meters leaves the Beam with status=active.
C20_EndBeamLeavesActive ==
    [][\A q \in Slots, b \in DOMAIN beams :
          (/\ inflight[q].op = "endBeam" /\ inflight[q].pc = "update"
           /\ inflight'[q].pc = "done" /\ inflight[q].beam_id = b
           /\ ActiveExhausted(b)
           /\ \E p \in Slots : BetweenSteps(p, b) /\ ~inflight[p].crashed)
          => beams'[b].status = "active"]_vars

\* C20 (amended): addDelivery inserts the Delivery and updates the Beam in
\* separate steps; a Beam is active with its meters used up only while an
\* addDelivery for it is between the two steps or after one crashed there,
\* and the update of endBeam always leaves the Beam completed.
C20_ActiveExhaustedOnlyBetweenSteps ==
    [][/\ \A b \in DOMAIN beams' :
             (/\ beams'[b].status = "active"
              /\ total_meters_used(deliveries', b) >= beams'[b].total_beam_meters)
             => \E p \in Slots :
                   /\ inflight'[p].op = "addDelivery"
                   /\ inflight'[p].pc \in {"sum", "update"}
                   /\ inflight'[p].beam_id = b
       /\ \A q \in Slots :
             (/\ inflight[q].op = "endBeam" /\ inflight[q].pc = "update"
              /\ inflight'[q].pc = "done" /\ inflight[q].beam_id \in DOMAIN beams)
             => beams'[inflight[q].beam_id].status = "completed"]_vars

\* the worker crashed after the insert: no request is being served any
\* more and a beam is left active with its meters used up
C20_Witness ==
    /\ \A p \in Slots : inflight[p].pc = "done" \/ inflight[p].crashed
    /\ \E p \in Slots, b \in DOMAIN beams :
          /\ BetweenSteps(p, b) /\ inflight[p].crashed
          /\ ActiveExhausted(b)

\* C21: in every reachable state, under any interleaving of the steps of
\* the handlers, a Beam has status=completed if and only if its end_date
\* is set; an active Beam has no end_date.
C21_CompletedIffEndDate ==
    \A b \in DOMAIN beams :
        /\ beams[b].status \in {"active", "completed"}
        /\ (beams[b].status = "completed") <=> (beams[b].end_date # NoDate)

\* an endBeam and an addDelivery for the same beam have both run to their
\* update, the beam is completed with its end_date, and the beam started
\* after it is active without one
C21_Witness ==
    /\ \E p, q \in Slots :
          /\ inflight[p].op = "endBeam" /\ inflight[q].op = "addDelivery"
          /\ inflight[p].pc = "done" /\ inflight[q].pc = "done"
          /\ ~inflight[p].crashed /\ ~inflight[q].crashed
          /\ inflight[q].total_meters_used >= inflight[q].total_beam_meters
          /\ inflight[p].beam_id = inflight[q].beam_id
          /\ inflight[p].beam_id \in DOMAIN beams
          /\ beams[inflight[p].beam_id].status = "completed"
          /\ beams[inflight[p].beam_id].end_date # NoDate
    /\ \E b \in DOMAIN beams : beams[b].status = "active" /\ beams[b].end_date = NoDate

\* C22: with the requests served one at a time and no crash, between two
\* requests every Beam started with total_beam_meters > 0 and
\* meters_per_piece >= 0 whose Deliveries all have good_pieces >= 0 and
\* damaged_pieces >= 0 is active only while the sum of its Deliveries'
\* meters_used is below total_beam_meters.
C22_ActiveBelowCapacity ==
    \A b \in DOMAIN beams :
        (/\ beams[b].total_beam_meters > 0
         /\ beams[b].meters_per_piece >= 0
         /\ \A d \in DeliveriesOf(deliveries, b) :
               deliveries[d].good_pieces >= 0 /\ deliveries[d].damaged_pieces >= 0
         /\ beams[b].status = "active")
        => total_meters_used(deliveries, b) < beams[b].total_beam_meters

\* one beam with capacity is active with a delivery below its capacity,
\* and another was completed by the delivery that reached its capacity
\* exactly
C22_Witness ==
    /\ Answered("addDelivery", "OK")
    /\ \E b \in DOMAIN beams :
          /\ beams[b].status = "completed"
          /\ beams[b].total_beam_meters > 0
          /\ total_meters_used(deliveries, b) = beams[b].total_beam_meters
    /\ \E b \in DOMAIN beams :
          /\ beams[b].status = "active"
          /\ beams[b].total_beam_meters > 0
          /\ total_meters_used(deliveries, b) > 0

\* C23: with the requests served one at a time, every Delivery references
\* an existing Beam in every reachable state: addDelivery inserts nothing
\* for a missing Beam, and deleteBeam and reset-database leave no Delivery
\* whose Beam is gone.
C23_DeliveryHasBeam ==
    \A d \in DOMAIN deliveries : deliveries[d].beam_id \in DOMAIN beams

\* deleteBeam has just removed a beam that had a delivery: the delivery is
\* gone with it, and the delivery of the other beam is still there
C23_Witness ==
    /\ Answered("deleteBeam", "OK")
    /\ nextId.beams = 3 /\ Cardinality(DOMAIN beams) = 1
    /\ nextId.deliveries = 3 /\ Cardinality(DOMAIN deliveries) = 1
    /\ \A d \in DOMAIN deliveries : d = 2

\* C24 (as claimed): with the storage calls of a deleteBeam(b) and of an
\* addDelivery(b) interleaved as separate atomic steps, once both requests
\* have finished no Delivery with beam_id = b remains.
C24_NoDeliveryOfDeletedBeam ==
    \A p, q \in Slots :
        (/\ inflight[p].op = "deleteBeam" /\ inflight[p].pc = "done"
         /\ inflight[q].op = "addDelivery" /\ inflight[q].pc = "done"
         /\ inflight[p].beam_id = inflight[q].beam_id
         /\ inflight[p].beam_id \notin DOMAIN beams)
        => DeliveriesOf(deliveries, inflight[p].beam_id) = {}

\* C25: with the requests served one at a time, every Beam with
\* status=active references a Machine that exists: startBeam requires the
\* Machine, deleteMachine is refused while the Machine has an active Beam,
\* and reset-database removes the beams together with the machines.
C25_ActiveBeamHasMachine ==
    \A b \in DOMAIN beams :
        beams[b].status = "active" => beams[b].machine_id \in DOMAIN machines

\* deleteMachine has just been refused for the machine of an active beam
C25_Witness ==
    /\ last.op = "deleteMachine" /\ last.class \notin {"OK", "Unauthorized", "Validation"}
    /\ \E b \in DOMAIN beams :
          beams[b].status = "active" /\ beams[b].machine_id \in DOMAIN machines

\* C26: addDelivery does not look at the status of the Beam: on an existing
\* Beam that is already completed it inserts the Delivery and answers OK,
\* so the sum of the Beam's meters_used can exceed total_beam_meters and
\* remaining_meters can be negative.
C26_CompletedBeamAcceptsDelivery ==
    [][last'.op = "addDelivery" =>
       \A tok \in Tokens, b \in DOMAIN beams, pr \in PriceVals,
          g \in GoodVals, dm \in DamagedVals :
          (/\ verify_token(tok)
           /\ beams[b].status = "completed"
           /\ add_delivery(tok, b, pr, g, dm))
          => /\ last'.class = "OK"
             /\ DOMAIN deliveries' = DOMAIN deliveries \cup {nextId.deliveries}
             /\ nextId.deliveries \notin DOMAIN deliveries
             /\ deliveries'[nextId.deliveries].beam_id = b
             /\ beams'[b].status = "completed"]_vars

\* the first delivery used up the beam and completed it, addDelivery has
\* just stored another for it: the meters used exceed the capacity and the
\* remaining meters that getBeamDetails computes are negative
C26_Witness ==
    /\ Answered("addDelivery", "OK")
    /\ \E b \in DOMAIN beams :
          /\ beams[b].status = "completed"
          /\ \E d1, d2 \in DeliveriesOf(deliveries, b) :
                /\ d1 < d2
                /\ deliveries[d1].meters_used >= beams[b].total_beam_meters
          /\ total_meters_used(deliveries, b) > beams[b].total_beam_meters
          /\ get_beam_details_totals(b).remaining_meters < 0

\* an addDelivery for b that went through its insert, sum and update
DeliveredTo(p, b) ==
    /\ inflight[p].op = "addDelivery"
    /\ inflight[p].pc = "done"
    /\ "beam_id" \in DOMAIN inflight[p]
    /\ inflight[p].beam_id = b

\* C27: no completion is lost between concurrent deliveries: when the
\* inserts, sums and updates of several addDelivery requests for one Beam
\* interleave, with no crash and no deleteDelivery or deleteBeam, then once
\* all requests have finished the Beam is completed whenever the sum of
\* its Deliveries' meters_used is >= total_beam_meters.
C27_NoCompletionLost ==
    (\A p \in Slots : inflight[p].pc \in {"idle", "done"})
    => \A b \in DOMAIN beams :
          (/\ \E p \in Slots : DeliveredTo(p, b)
           /\ total_meters_used(deliveries, b) >= beams[b].total_beam_meters)
          => beams[b].status = "completed"

\* two addDelivery requests of one piece each for a beam of two meters
\* have finished; both had inserted before either summed, and the beam is
\* completed
C27_Witness ==
    /\ \A p \in Slots : inflight[p].pc = "done"
    /\ \E b \in DOMAIN beams :
          /\ \A p \in Slots :
                /\ DeliveredTo(p, b)
                /\ inflight[p].good_pieces + inflight[p].damaged_pieces = 1
                /\ inflight[p].total_meters_used = beams[b].total_beam_meters
          /\ total_meters_used(deliveries, b) = beams[b].total_beam_meters
          /\ beams[b].status = "completed"

====
